---- MODULE Spec2Model ----
(***************************************************************************)
(* A model of the zkbitcoin admin tool (crates/zkbtc-admin/src/main.rs)    *)
(* and of the bitcoind JSON RPC client (src/json_rpc_stuff.rs).            *)
(*                                                                         *)
(* One process runs one command: the key ceremony (generate_committee),   *)
(* the orchestrator start-up (start_orchestrator), or a chained           *)
(* fund -> sign -> broadcast run of the transaction pipeline.             *)
(***************************************************************************)
EXTENDS Integers, Sequences, FiniteSets, TLC

VARIABLES
    command,          \* the command this process runs (main's match on cli.command)
    \* ---- generate_committee ----
    gc_pc,            \* position inside generate_committee
    num,              \* argument num: u16
    threshold,        \* argument threshold: u16
    key_packages,     \* local key_packages: BTreeMap<Identifier, KeyPackage>
    pubkey_package,   \* local pubkey_package: PublicKeyPackage
    pubkey,           \* local pubkey: VerifyingKey
    ordinal,          \* the enumerate() counter of the key package loop
    fs,               \* the output directory: file name -> content
    io_log,           \* history: the file names created, in order
    attempts,         \* history: calls of frost::gen_frost_keys (saturating)
    keygen_failed,    \* history: some gen_frost_keys call returned an error
    gen_after_err,    \* history: gen_frost_keys was called after one had failed
    \* ---- start_orchestrator ----
    so_pc,            \* position inside start_orchestrator
    pk_file,          \* what lies at publickey_package_path
    cfg_file,         \* what lies at committee_cfg_path
    so_pubkey_package,\* local pubkey_package
    so_committee_cfg, \* local committee_cfg
    run_server_args,  \* history: the arguments of each run_server call
    \* ---- the transaction pipeline over json_rpc_request ----
    ctx,              \* the RpcCtx handed to every call
    ctx0,             \* history: the RpcCtx as constructed
    stage,            \* the pipeline stage running: "fund", "sign" or "send"
    rp_pc,            \* position inside the stage and its json_rpc_request
    tx_in,            \* the stage's argument tx: TransactionOrHex
    http_log,         \* history: the HTTP POSTs issued, in order
    calls,            \* history: the json_rpc_request invocations, by method
    reply,            \* the HTTP response of the last completed exchange
    rpc_result,       \* what json_rpc_request returned
    stage_results     \* what each finished stage returned to its caller

gcVars == <<gc_pc, num, threshold, key_packages, pubkey_package, pubkey,
            ordinal, fs, io_log, attempts, keygen_failed, gen_after_err>>
soVars == <<so_pc, pk_file, cfg_file, so_pubkey_package, so_committee_cfg,
            run_server_args>>
rpVars == <<ctx, ctx0, stage, rp_pc, tx_in, http_log, calls, reply, rpc_result,
            stage_results>>
vars == <<command, gcVars, soVars, rpVars>>

----------------------------------------------------------------------------
(* Bounds of the model *)

\* largest num / threshold given on the command line
MaxNum == 3
\* key generation draws its randomness from 0..MaxSeed
MaxSeed == 2
\* the attempts counter saturates here
MaxAttempts == 3

None == "None"
Seeds == 0..MaxSeed
\* the identifiers key generation may hand out
Identifiers == 1..(MaxNum + 1)

----------------------------------------------------------------------------
(* frost: the key generation capability *)

\* VerifyingKey::serialize(): the SEC1 compressed point, parity byte first
Serialize(vk) == <<2 + (vk % 2), vk>>

KeyPackage(seed, id, t) ==
    [identifier |-> id, signing_share |-> <<seed, id>>,
     verifying_key |-> seed, min_signers |-> t]

PublicKeyPackage(seed, ids) ==
    [verifying_shares |-> [id \in ids |-> <<"pub", seed, id>>],
     verifying_key |-> seed]

\* The outcomes frost::gen_frost_keys(num, threshold) can have: an error for
\* an invalid threshold/member-count combination, an error of the capability
\* itself, or one secret share per member plus the public key package.
gen_frost_keys(n, t) ==
    IF ~(0 < t /\ t <= n)
    THEN {[ok |-> FALSE, error |-> "InvalidSigners"]}
    ELSE {[ok |-> FALSE, error |-> "Capability"]}
         \cup
         {[ok |-> TRUE,
           key_packages |-> [id \in ids |-> KeyPackage(seed, id, t)],
           pubkey_package |-> PublicKeyPackage(seed, ids)] :
              seed \in Seeds, ids \in {s \in SUBSET Identifiers : Cardinality(s) = n}}

----------------------------------------------------------------------------
(* Helpers of generate_committee *)

\* the byte the loop compares pubkey.serialize()[0] with
EvenYMarker == 2

\* `pubkey.serialize()[0] == 2` (Rust indexes from 0, TLA+ from 1)
ParityOkAlways(pk) == TRUE
ParityOkWrongMarker(pk) == Serialize(pk)[1] = EvenYMarker + 2
ParityOk(pk) == Serialize(pk)[1] = EvenYMarker

Digits == <<"0", "1", "2", "3", "4", "5", "6", "7", "8", "9">>

\* Display of an unsigned integer, as format!("{id}") prints it
RECURSIVE Decimal(_)
Decimal(n) ==
    IF n < 10 THEN <<Digits[n + 1]>>
    ELSE Decimal(n \div 10) \o <<Digits[(n % 10) + 1]>>

\* format!("key-{id}.json")
KeyFileName(id) == <<"key-">> \o Decimal(id) \o <<".json">>
PubkeyFileName == <<"publickey-package.json">>
CfgFileName == <<"committee-cfg.json">>

\* format!("{}{}", ip, id) with ip = "http://127.0.0.1:889"
MemberAddress(id) == <<"http://127.0.0.1:889">> \o Decimal(id)

\* The keys of a BTreeMap in iteration order (ascending)
RECURSIVE SortedKeys(_)
SortedKeys(S) ==
    IF S = {} THEN <<>>
    ELSE LET m == CHOOSE x \in S : \A y \in S : x <= y
         IN <<m>> \o SortedKeys(S \ {m})

\* key_packages.values(): the values in key order
Values(m) ==
    LET ks == SortedKeys(DOMAIN m)
    IN [i \in 1..Len(ks) |-> m[ks[i]]]

\* key_packages.iter(): the (key, value) pairs in key order
Iter(m) ==
    LET ks == SortedKeys(DOMAIN m)
    IN [i \in 1..Len(ks) |-> <<ks[i], m[ks[i]]>>]

\* the CommitteeConfig built at lines 102-116
CommitteeCfgNumAsThreshold(t, kps) ==
    [threshold |-> Len(Iter(kps)),
     members |-> [mid \in {Iter(kps)[i][1] : i \in 1..Len(Iter(kps))} |->
                    [address |-> MemberAddress(
                        (CHOOSE i \in 1..Len(Iter(kps)) : Iter(kps)[i][1] = mid) - 1)]]]
CommitteeCfg(t, kps) ==
    [threshold |-> t,
     members |-> [mid \in {Iter(kps)[i][1] : i \in 1..Len(Iter(kps))} |->
                    [address |-> MemberAddress(
                        (CHOOSE i \in 1..Len(Iter(kps)) : Iter(kps)[i][1] = mid) - 1)]]]

\* File::create(path) followed by serde_json::to_writer_pretty(file, content)
WriteFile(files, name, content) ==
    [n \in (DOMAIN files) \cup {name} |-> IF n = name THEN content ELSE files[n]]

\* File::create succeeded but the writer failed: the file is left truncated
Truncated == [truncated |-> TRUE]

Saturate(n) == IF n < MaxAttempts THEN n + 1 ELSE MaxAttempts

----------------------------------------------------------------------------
(* generate_committee(num, threshold, output_dir) *)

\* unwrap() on the Err of gen_frost_keys: the process panics
KeygenErrorIgnored == gc_pc' = "loop"
KeygenError == gc_pc' = "panic_keygen"

\* line 69-70: the first deal
FirstDeal ==
    /\ command = "GenerateCommittee"
    /\ gc_pc = "deal"
    /\ \E r \in gen_frost_keys(num, threshold) :
         /\ attempts' = Saturate(attempts)
         /\ gen_after_err' = (gen_after_err \/ keygen_failed)
         /\ IF r.ok
            THEN /\ key_packages' = r.key_packages
                 /\ pubkey_package' = r.pubkey_package
                 /\ pubkey' = r.pubkey_package.verifying_key
                 /\ gc_pc' = "loop"
                 /\ UNCHANGED keygen_failed
            ELSE /\ KeygenError
                 /\ keygen_failed' = TRUE
                 /\ UNCHANGED <<key_packages, pubkey_package, pubkey>>
    /\ UNCHANGED <<command, num, threshold, ordinal, fs, io_log, soVars, rpVars>>

\* line 72-74: the key starts with 0x02, leave the loop
LoopBreak ==
    /\ gc_pc = "loop"
    /\ ParityOk(pubkey)
    /\ gc_pc' = "key_packages"
    /\ ordinal' = 0
    /\ UNCHANGED <<command, num, threshold, key_packages, pubkey_package, pubkey,
                   fs, io_log, attempts, keygen_failed, gen_after_err, soVars, rpVars>>

\* the tuple assignment of line 75 and the assignment of line 76
StaleKeyPackages(r) ==
    /\ key_packages' = key_packages
    /\ pubkey_package' = r.pubkey_package
    /\ pubkey' = r.pubkey_package.verifying_key
Reassign(r) ==
    /\ key_packages' = r.key_packages
    /\ pubkey_package' = r.pubkey_package
    /\ pubkey' = r.pubkey_package.verifying_key

\* line 75-76: deal again
DealAgain ==
    /\ gc_pc = "loop"
    /\ ~ParityOk(pubkey)
    /\ \E r \in gen_frost_keys(num, threshold) :
         /\ attempts' = Saturate(attempts)
         /\ gen_after_err' = (gen_after_err \/ keygen_failed)
         /\ IF r.ok
            THEN /\ Reassign(r)
                 /\ gc_pc' = "loop"
                 /\ UNCHANGED keygen_failed
            ELSE /\ KeygenError
                 /\ keygen_failed' = TRUE
                 /\ UNCHANGED <<key_packages, pubkey_package, pubkey>>
    /\ UNCHANGED <<command, num, threshold, ordinal, fs, io_log, soVars, rpVars>>

\* line 81-89: one iteration of the key package loop
WriteKeyPackage ==
    /\ gc_pc = "key_packages"
    /\ ordinal < Len(Values(key_packages))
    /\ fs' = WriteFile(fs, KeyFileName(ordinal), Values(key_packages)[ordinal + 1])
    /\ io_log' = Append(io_log, KeyFileName(ordinal))
    /\ ordinal' = ordinal + 1
    /\ UNCHANGED <<command, gc_pc, num, threshold, key_packages, pubkey_package,
                   pubkey, attempts, keygen_failed, gen_after_err, soVars, rpVars>>

\* line 94-96: the loop is over, write the public key package
WritePubkeyPackage ==
    /\ gc_pc = "key_packages"
    /\ ordinal = Len(Values(key_packages))
    /\ fs' = WriteFile(fs, PubkeyFileName, pubkey_package)
    /\ io_log' = Append(io_log, PubkeyFileName)
    /\ gc_pc' = "committee_cfg"
    /\ UNCHANGED <<command, num, threshold, key_packages, pubkey_package, pubkey,
                   ordinal, attempts, keygen_failed, gen_after_err, soVars, rpVars>>

\* line 100-120: write the committee config and return
WriteCommitteeCfg ==
    /\ gc_pc = "committee_cfg"
    /\ fs' = WriteFile(fs, CfgFileName, CommitteeCfg(threshold, key_packages))
    /\ io_log' = Append(io_log, CfgFileName)
    /\ gc_pc' = "done"
    /\ UNCHANGED <<command, num, threshold, key_packages, pubkey_package, pubkey,
                   ordinal, attempts, keygen_failed, gen_after_err, soVars, rpVars>>

\* the file about to be written at gc_pc
NextFileName ==
    IF gc_pc = "committee_cfg" THEN CfgFileName
    ELSE IF ordinal < Len(Values(key_packages)) THEN KeyFileName(ordinal)
    ELSE PubkeyFileName

\* expect()/unwrap() of lines 85-88, 95-96, 118-119: create_dir_all or
\* File::create fails (nothing is created), or the writer fails after the
\* file was created
WriteFails ==
    /\ gc_pc \in {"key_packages", "committee_cfg"}
    /\ \/ UNCHANGED <<fs, io_log>>
       \/ /\ fs' = WriteFile(fs, NextFileName, Truncated)
          /\ io_log' = Append(io_log, NextFileName)
    /\ gc_pc' = "panic_io"
    /\ UNCHANGED <<command, num, threshold, key_packages, pubkey_package, pubkey,
                   ordinal, attempts, keygen_failed, gen_after_err, soVars, rpVars>>

----------------------------------------------------------------------------
(* start_orchestrator(address, publickey_package_path, committee_cfg_path) *)

\* what a path can hold: no file, a file serde_json cannot read as the
\* expected type, or a readable one
PubkeyPackageFiles ==
    {[state |-> "missing"], [state |-> "corrupt"]} \cup
    {[state |-> "ok", content |-> PublicKeyPackage(seed, 1..n)] :
        seed \in Seeds, n \in 0..MaxNum}

CommitteeCfgFiles ==
    {[state |-> "missing"], [state |-> "corrupt"]} \cup
    {[state |-> "ok",
      content |-> [threshold |-> t,
                   members |-> [id \in 1..n |-> [address |-> MemberAddress(id - 1)]]]] :
        t \in 0..MaxNum, n \in 0..MaxNum}

\* line 150-156
LoadPubkeyPackage ==
    /\ command = "StartOrchestrator"
    /\ so_pc = "load_pubkey_package"
    /\ IF pk_file.state = "missing" THEN
            so_pc' = "panic_file_not_found" /\ UNCHANGED so_pubkey_package
       ELSE IF pk_file.state = "corrupt" THEN
            so_pc' = "panic_reading_file" /\ UNCHANGED so_pubkey_package
       ELSE so_pc' = "load_committee_cfg" /\ so_pubkey_package' = pk_file.content
    /\ UNCHANGED <<command, gcVars, rpVars, pk_file, cfg_file, so_committee_cfg, run_server_args>>

\* line 158-164
LoadCommitteeCfg ==
    /\ so_pc = "load_committee_cfg"
    /\ IF cfg_file.state = "missing" THEN
            so_pc' = "panic_file_not_found" /\ UNCHANGED so_committee_cfg
       ELSE IF cfg_file.state = "corrupt" THEN
            so_pc' = "panic_reading_file" /\ UNCHANGED so_committee_cfg
       ELSE so_pc' = "sanity_check" /\ so_committee_cfg' = cfg_file.content
    /\ UNCHANGED <<command, gcVars, rpVars, pk_file, cfg_file, so_pubkey_package, run_server_args>>

\* the condition of the assert! of line 167
SanityCheckSkipped(cfg) == TRUE
SanityCheck(cfg) == cfg.threshold > 0

\* line 167-169: the sanity check, then the call of run_server
StartServing ==
    /\ so_pc = "sanity_check"
    /\ IF SanityCheck(so_committee_cfg)
       THEN /\ so_pc' = "run_server"
            /\ run_server_args' = Append(run_server_args,
                                         <<so_pubkey_package, so_committee_cfg>>)
       ELSE /\ so_pc' = "panic_assert"
            /\ UNCHANGED run_server_args
    /\ UNCHANGED <<command, gcVars, rpVars, pk_file, cfg_file, so_pubkey_package, so_committee_cfg>>

\* line 169-171: run_server returns an error and unwrap() panics
ServerFails ==
    /\ so_pc = "run_server"
    /\ so_pc' = "panic_run_server"
    /\ UNCHANGED <<command, gcVars, rpVars, pk_file, cfg_file, so_pubkey_package,
                   so_committee_cfg, run_server_args>>

----------------------------------------------------------------------------

(* src/json_rpc_stuff.rs: hex strings, transactions, the node's answers *)

\* the longest transaction the node handles in the model, in bytes; a Txid
\* (a fixed-width hash) has this many bytes too
MaxBytes == 1

\* Timeout (in seconds) for json rpc requests
JSON_RPC_TIMEOUT == 2

HexDigits ==
    <<"0", "1", "2", "3", "4", "5", "6", "7", "8", "9", "a", "b", "c", "d", "e", "f">>
HexDigitsUpper ==
    <<"0", "1", "2", "3", "4", "5", "6", "7", "8", "9", "A", "B", "C", "D", "E", "F">>

\* the characters of the hex strings the model enumerates
HexChars == {"a", "A"}
HexStrings == UNION {[1..n -> HexChars] : n \in 0..(2 * MaxBytes)}

IsHexChar(c) == \E v \in 1..16 : HexDigits[v] = c \/ HexDigitsUpper[v] = c
HexValue(c) == (CHOOSE v \in 1..16 : HexDigits[v] = c \/ HexDigitsUpper[v] = c) - 1

\* hex decoding (FromHex): either case, an even number of digits
HexDecode(s) ==
    IF Len(s) % 2 = 0 /\ \A i \in 1..Len(s) : IsHexChar(s[i])
    THEN [ok |-> TRUE,
          bytes |-> [i \in 1..(Len(s) \div 2) |->
                        16 * HexValue(s[2 * i - 1]) + HexValue(s[2 * i])]]
    ELSE [ok |-> FALSE, bytes |-> <<>>]

\* hex::encode: lower case
HexEncode(bytes) ==
    [i \in 1..(2 * Len(bytes)) |->
        IF i % 2 = 1 THEN HexDigits[(bytes[(i + 1) \div 2] \div 16) + 1]
        ELSE HexDigits[(bytes[i \div 2] % 16) + 1]]

Reverse(s) == [i \in 1..Len(s) |-> s[Len(s) + 1 - i]]

\* a structured bitcoin::Transaction, known by its consensus encoding
Transactions ==
    {[raw |-> HexDecode(s).bytes] : s \in {h \in HexStrings : HexDecode(h).ok /\ Len(h) > 0}}

\* bitcoin::consensus::encode::serialize_hex(tx)
serialize_hex(tx) == HexEncode(tx.raw)

\* bitcoin::consensus::encode::deserialize(bytes): the bytes are a
\* transaction or they are not; no bytes at all never are
deserialize(bytes) ==
    IF bytes = <<>> THEN {[ok |-> FALSE, tx |-> [raw |-> <<>>]]}
    ELSE {[ok |-> FALSE, tx |-> [raw |-> <<>>]], [ok |-> TRUE, tx |-> [raw |-> bytes]]}

\* Txid from its hex string: a hash of fixed width, stored byte-reversed
TxidFromStr(s) ==
    LET d == HexDecode(s)
    IN IF d.ok /\ Len(d.bytes) = MaxBytes
       THEN [ok |-> TRUE, hash |-> Reverse(d.bytes)]
       ELSE [ok |-> FALSE, hash |-> <<>>]

\* Display of a Txid
TxidDisplay(hash) == HexEncode(Reverse(hash))

\* TransactionOrHex
TransactionOrHexValues ==
    {[tag |-> "Hex", hex |-> h, tx |-> [raw |-> <<>>]] : h \in HexStrings} \cup
    {[tag |-> "Transaction", hex |-> <<>>, tx |-> t] : t \in Transactions}

Hex(h) == [tag |-> "Hex", hex |-> h, tx |-> [raw |-> <<>>]]

\* RpcCtx
RpcCtxValues ==
    [version : {"1.0"}, wallet : {None, "mywallet"},
     address : {None, "http://146.190.33.39:18331"}, auth : {None, "root:hellohello"}]

\* RpcCtx::address
Address(c) == IF c.address = None THEN "http://127.0.0.1:18331" ELSE c.address

\* what the node can answer: a JSON-RPC envelope with a result or an error,
\* or text that is no JSON-RPC envelope
NullError == [is_null |-> TRUE, code |-> 0, message |-> ""]
ErrorObjects ==
    {[is_null |-> FALSE, code |-> -4, message |-> "Insufficient funds"],
     [is_null |-> FALSE, code |-> -22, message |-> "TX decode failed"]}
NullResult == [shape |-> "null", value |-> <<>>]
Results ==
    {NullResult} \cup
    {[shape |-> sh, value |-> h] : sh \in {"object", "string"}, h \in HexStrings}
NotJson == [json |-> FALSE, result |-> NullResult, error |-> NullError]
Bodies ==
    {NotJson} \cup
    {[json |-> TRUE, result |-> NullResult, error |-> e] : e \in ErrorObjects} \cup
    {[json |-> TRUE, result |-> r, error |-> NullError] : r \in Results}
Statuses == {200, 500}

NoReply == [status |-> 0, body |-> NotJson]
NoResult == [state |-> "none", error |-> "", body |-> NotJson]

Stages == {"fund", "sign", "send"}

\* the method each stage names in its json_rpc_request call
Method(st) ==
    CASE st = "fund" -> "fundrawtransaction"
      [] st = "sign" -> "signrawtransactionwithwallet"
      [] st = "send" -> "sendrawtransaction"

\* the match on tx that opens each stage
TxHex(tx) == IF tx.tag = "Hex" THEN tx.hex ELSE serialize_hex(tx.tx)

\* the params slice of each stage: the hex as one JSON string
ParamsWithOptions(tx_hex) == <<tx_hex, "{}">>
Params(tx_hex) == <<tx_hex>>

\* json_rpc_request, line 109-148: the POST it sends
Post(c, method, params) ==
    [url |-> IF c.wallet # None THEN <<Address(c), "/wallet/", c.wallet>>
             ELSE <<Address(c)>>,
     authorization |-> IF c.auth # None THEN <<"Basic ", "base64", c.auth>> ELSE <<>>,
     content_type |-> "application/json",
     timeout |-> JSON_RPC_TIMEOUT,
     body |-> [jsonrpc |-> c.version, id |-> "whatevs", method |-> method,
               params |-> params]]

\* line 151-152: the status is printed, the body text is the return value
ErrorForStatus(status, body) ==
    IF status >= 400 THEN [state |-> "err", error |-> "status", body |-> NotJson]
    ELSE [state |-> "ok", error |-> "", body |-> body]
ResponseText(status, body) == [state |-> "ok", error |-> "", body |-> body]

Panic(msg, detail) ==
    [kind |-> "panic", msg |-> <<msg>>, detail |-> detail, hex |-> <<>>, txid |-> <<>>]
StageErr(st, source) ==
    [kind |-> "Err", msg |-> <<Method(st), " error">>, detail |-> source,
     hex |-> <<>>, txid |-> <<>>]
StageOk(hex, txid) ==
    [kind |-> "Ok", msg |-> <<>>, detail |-> "", hex |-> hex, txid |-> txid]

\* What a stage returns for the return value r of its json_rpc_request:
\* `.context(..)?` on an Err, then the unwrap()s on the parsed response
StageOutcomes(st, r) ==
    IF r.state = "err" THEN {StageErr(st, r.error)}
    ELSE IF ~r.body.json THEN {Panic("from_str", "")}
    ELSE IF ~r.body.error.is_null THEN {Panic("result: Rpc", r.body.error.message)}
    ELSE IF st = "send" THEN
        IF r.body.result.shape = "string" /\ TxidFromStr(r.body.result.value).ok
        THEN {StageOk(<<>>, TxidFromStr(r.body.result.value).hash)}
        ELSE {Panic("result: Json", "")}
    ELSE IF r.body.result.shape = "object" /\ HexDecode(r.body.result.value).ok
        THEN {IF d.ok THEN StageOk(HexEncode(HexDecode(r.body.result.value).bytes), <<>>)
                      ELSE Panic("deserialize", "") :
                 d \in deserialize(HexDecode(r.body.result.value).bytes)}
        ELSE {Panic("result: Json", "")}

\* the chained caller: fund, then sign, then broadcast, each stage given the
\* hex the stage before it returned
NextStage(st) == IF st = "fund" THEN "sign" ELSE "send"
ChainInput(out) == Hex(out.hex)

----------------------------------------------------------------------------
(* json_rpc_request and the stages built on it *)

\* line 129-132: Client::builder()...build()? fails, nothing is sent
BuildFails ==
    /\ command = "Pipeline"
    /\ rp_pc = "call"
    /\ calls' = Append(calls, Method(stage))
    /\ rpc_result' = [state |-> "err", error |-> "builder", body |-> NotJson]
    /\ rp_pc' = "returned"
    /\ UNCHANGED <<command, gcVars, soVars, ctx, ctx0, stage, tx_in, http_log, reply,
                   stage_results>>

\* line 109-150: the request is built and posted
SendRequest ==
    /\ command = "Pipeline"
    /\ rp_pc = "call"
    /\ calls' = Append(calls, Method(stage))
    /\ http_log' = Append(http_log, Post(ctx, Method(stage), Params(TxHex(tx_in))))
    /\ rp_pc' = "awaiting"
    /\ UNCHANGED <<command, gcVars, soVars, ctx, ctx0, stage, tx_in, reply, rpc_result,
                   stage_results>>

\* `.send().await?` and `response.text().await`: the Err is the return value
TransportErrorRetried(kind) ==
    /\ rp_pc' = "call"
    /\ UNCHANGED rpc_result
TransportError(kind) ==
    /\ rp_pc' = "returned"
    /\ rpc_result' = [state |-> "err", error |-> kind, body |-> NotJson]

\* line 145-152: the node is unreachable, the timeout passes, or the body
\* cannot be read
TransportFails ==
    /\ rp_pc = "awaiting"
    /\ \E kind \in {"connect", "timeout", "body"} : TransportError(kind)
    /\ UNCHANGED <<command, gcVars, soVars, ctx, ctx0, stage, tx_in, http_log, calls,
                   reply, stage_results>>

\* line 145-152: the exchange completes with some status and body
ReceiveResponse ==
    /\ rp_pc = "awaiting"
    /\ \E status \in Statuses, body \in Bodies :
         /\ reply' = [status |-> status, body |-> body]
         /\ rpc_result' = ResponseText(status, body)
    /\ rp_pc' = "returned"
    /\ UNCHANGED <<command, gcVars, soVars, ctx, ctx0, stage, tx_in, http_log, calls,
                   stage_results>>

\* the rest of the stage after json_rpc_request returned; on Ok the caller
\* hands the returned hex to the next stage
StageReturns ==
    /\ rp_pc = "returned"
    /\ \E out \in StageOutcomes(stage, rpc_result) :
         /\ stage_results' = [stage_results EXCEPT ![stage] = out]
         /\ IF out.kind = "Ok" /\ stage # "send"
            THEN /\ stage' = NextStage(stage)
                 /\ tx_in' = ChainInput(out)
                 /\ rp_pc' = "call"
                 /\ reply' = NoReply
                 /\ rpc_result' = NoResult
            ELSE /\ rp_pc' = IF out.kind = "Ok" THEN "finished"
                             ELSE IF out.kind = "Err" THEN "failed" ELSE "panicked"
                 /\ UNCHANGED <<stage, tx_in, reply, rpc_result>>
    /\ UNCHANGED <<command, gcVars, soVars, ctx, ctx0, http_log, calls>>

----------------------------------------------------------------------------
(* The process: main parses the command line and runs one command *)

GcInit ==
    /\ gc_pc = "deal"
    /\ num \in 0..MaxNum
    /\ threshold \in 0..MaxNum

GcIdle == gc_pc = "idle" /\ num = 0 /\ threshold = 0

SoInit ==
    /\ so_pc = "load_pubkey_package"
    /\ pk_file \in PubkeyPackageFiles
    /\ cfg_file \in CommitteeCfgFiles

SoIdle ==
    /\ so_pc = "idle"
    /\ pk_file = [state |-> "missing"]
    /\ cfg_file = [state |-> "missing"]

RpInit ==
    /\ rp_pc = "call"
    /\ ctx \in RpcCtxValues
    /\ tx_in \in TransactionOrHexValues

RpIdle ==
    /\ rp_pc = "idle"
    /\ ctx = [version |-> "1.0", wallet |-> None, address |-> None, auth |-> None]
    /\ tx_in = Hex(<<>>)

Init ==
    /\ command \in {"GenerateCommittee", "StartOrchestrator", "Pipeline"}
    /\ IF command = "GenerateCommittee" THEN GcInit ELSE GcIdle
    /\ IF command = "StartOrchestrator" THEN SoInit ELSE SoIdle
    /\ IF command = "Pipeline" THEN RpInit ELSE RpIdle
    /\ key_packages = <<>>
    /\ pubkey_package = PublicKeyPackage(0, {})
    /\ pubkey = 0
    /\ ordinal = 0
    /\ fs = <<>>
    /\ io_log = <<>>
    /\ attempts = 0
    /\ keygen_failed = FALSE
    /\ gen_after_err = FALSE
    /\ so_pubkey_package = PublicKeyPackage(0, {})
    /\ so_committee_cfg = [threshold |-> 0, members |-> <<>>]
    /\ run_server_args = <<>>
    /\ ctx0 = ctx
    /\ stage = "fund"
    /\ http_log = <<>>
    /\ calls = <<>>
    /\ reply = NoReply
    /\ rpc_result = NoResult
    /\ stage_results = [s \in Stages |-> [kind |-> "none", msg |-> <<>>, detail |-> "",
                                          hex |-> <<>>, txid |-> <<>>]]

Next ==
    \/ FirstDeal
    \/ LoopBreak
    \/ DealAgain
    \/ WriteKeyPackage
    \/ WritePubkeyPackage
    \/ WriteCommitteeCfg
    \/ WriteFails
    \/ LoadPubkeyPackage
    \/ LoadCommitteeCfg
    \/ StartServing
    \/ ServerFails
    \/ BuildFails
    \/ SendRequest
    \/ TransportFails
    \/ ReceiveResponse
    \/ StageReturns

Spec == Init /\ [][Next]_vars

\* the steps of generate_committee
GcNext ==
    \/ FirstDeal
    \/ LoopBreak
    \/ DealAgain
    \/ WriteKeyPackage
    \/ WritePubkeyPackage
    \/ WriteCommitteeCfg
    \/ WriteFails

\* The ceremony is a running process (it keeps taking steps), and key
\* generation, dealt again and again, eventually deals an even-y key.
FairSpec ==
    /\ Spec
    /\ WF_vars(GcNext)
    /\ WF_vars(DealAgain /\ Serialize(pubkey')[1] = EvenYMarker)

----------------------------------------------------------------------------
(* The claims *)

ValidInput == command = "GenerateCommittee" /\ 0 < threshold /\ threshold <= num

Written(name) == name \in DOMAIN fs /\ fs[name] # Truncated

KeyFileNames == {KeyFileName(i) : i \in 0..(num - 1)}

AllArtifactsWritten ==
    /\ \A n \in KeyFileNames \cup {PubkeyFileName, CfgFileName} : Written(n)
    /\ DOMAIN fs = KeyFileNames \cup {PubkeyFileName, CfgFileName}

\* C1: no artifact file is written while the verifying key held has a leading
\* byte other than 0x02, and the verifying key of a written public key
\* package has leading byte 0x02, however many deals came before.
C1_EvenYBeforeArtifacts ==
    /\ io_log # <<>> => Serialize(pubkey)[1] = 2
    /\ Written(PubkeyFileName) => Serialize(fs[PubkeyFileName].verifying_key)[1] = 2

C1_Witness == Written(PubkeyFileName) /\ attempts >= 2

\* C2: a completed generate_committee on 0 < threshold <= num has written
\* exactly the num files key-0.json .. key-(num-1).json, one public key
\* package and one committee config with num members and the input threshold.
C2_ExactArtifacts ==
    (gc_pc = "done" /\ ValidInput) =>
        /\ Cardinality(KeyFileNames) = num
        /\ AllArtifactsWritten
        /\ Len(io_log) = num + 2
        /\ {io_log[i] : i \in 1..Len(io_log)} = DOMAIN fs
        /\ Cardinality(DOMAIN fs[CfgFileName].members) = num
        /\ fs[CfgFileName].threshold = threshold

C2_Witness == gc_pc = "done" /\ num = 3 /\ threshold = 2

\* C3: on valid input generate_committee eventually terminates: if it does
\* not panic, the loop exits, every artifact is written, and the key it
\* returns with is even-y; it never returns with an odd-y key.
C3_Terminates ==
    /\ ValidInput ~> \/ gc_pc \in {"panic_keygen", "panic_io"}
                     \/ /\ gc_pc = "done"
                        /\ AllArtifactsWritten
                        /\ Serialize(pubkey)[1] = 2
    /\ [](gc_pc = "done" => Serialize(pubkey)[1] = 2)

C3_Witness == gc_pc = "done" /\ attempts >= 2 /\ AllArtifactsWritten

\* C4: a stage answered with HTTP 500 and a JSON-RPC error body returns an
\* error value that contains the body's error message (it does not panic).
C4_ProtocolErrorReturned ==
    (/\ rp_pc \in {"finished", "failed", "panicked"}
     /\ reply.status = 500
     /\ reply.body.json
     /\ ~reply.body.error.is_null) =>
        /\ stage_results[stage].kind = "Err"
        /\ stage_results[stage].detail = reply.body.error.message

C6_NoServingWithoutChecks ==
    (so_pc = "run_server" \/ run_server_args # <<>>) =>
        /\ pk_file.state = "ok"
        /\ cfg_file.state = "ok"
        /\ cfg_file.content.threshold > 0
        /\ run_server_args = <<<<pk_file.content, cfg_file.content>>>>

C6_Witness ==
    /\ so_pc = "panic_assert"
    /\ cfg_file.state = "ok"
    /\ cfg_file.content.threshold = 0
    /\ run_server_args = <<>>

\* C7: when json_rpc_request returns after a completed HTTP exchange it
\* returns Ok with the body of the response as it was, whatever the status;
\* it returns Err only when the transport failed.
C7_BodyVerbatim ==
    rp_pc = "returned" =>
        /\ reply # NoReply =>
             /\ rpc_result.state = "ok"
             /\ rpc_result.body = reply.body
        /\ rpc_result.state = "err" =>
             /\ reply = NoReply
             /\ rpc_result.error \in {"builder", "connect", "timeout", "body"}

C7_Witness ==
    /\ rp_pc = "returned"
    /\ reply.status = 500
    /\ ~reply.body.error.is_null
    /\ rpc_result.state = "ok"

\* C8: once gen_frost_keys has returned an error, generate_committee has
\* stopped: it calls gen_frost_keys no more and has written no file.
C8_KeygenErrorStops ==
    /\ ~gen_after_err
    /\ keygen_failed =>
         /\ gc_pc = "panic_keygen"
         /\ io_log = <<>>
         /\ fs = <<>>

C8_Witness == keygen_failed /\ attempts >= 2 /\ gc_pc = "panic_keygen"

\* C9: every json_rpc_request sends at most one POST and no stage is run
\* twice; a transport failure is what the stage returns, under the method's
\* context, with no further request, and the RpcCtx stays as constructed.
C9_NoRetry ==
    /\ ctx = ctx0
    /\ Len(http_log) <= Len(calls)
    /\ \A i, j \in 1..Len(calls) : i # j => calls[i] # calls[j]
    /\ rpc_result.state = "err" => rp_pc \in {"returned", "failed"}
    /\ rp_pc = "failed" =>
         /\ rpc_result.state = "err"
         /\ stage_results[stage] = StageErr(stage, rpc_result.error)
         /\ stage_results[stage].msg = <<calls[Len(calls)], " error">>

C9_Witness ==
    /\ rp_pc = "failed"
    /\ stage = "sign"
    /\ rpc_result.error = "timeout"
    /\ Len(http_log) = 2

\* C10: every key package file, the public key package file and the
\* committee config come from the deal that passed the parity check, and
\* key-<i>.json holds the key package of the member whose address ends in <i>.
C10_ArtifactsConsistent ==
    /\ \A i \in 0..(num - 1) :
         Written(KeyFileName(i)) =>
            LET kp == fs[KeyFileName(i)]
            IN /\ kp.identifier \in DOMAIN key_packages
               /\ kp = key_packages[kp.identifier]
               /\ kp.verifying_key = pubkey_package.verifying_key
               /\ kp.signing_share[1] = pubkey_package.verifying_key
               /\ Serialize(kp.verifying_key)[1] = 2
               /\ \A j \in 0..(num - 1) :
                    (j # i /\ Written(KeyFileName(j))) =>
                        fs[KeyFileName(j)].identifier # kp.identifier
               /\ Written(PubkeyFileName) =>
                    /\ fs[PubkeyFileName].verifying_key = kp.verifying_key
                    /\ kp.identifier \in DOMAIN fs[PubkeyFileName].verifying_shares
               /\ Written(CfgFileName) =>
                    /\ kp.identifier \in DOMAIN fs[CfgFileName].members
                    /\ fs[CfgFileName].members[kp.identifier].address = MemberAddress(i)
    /\ Written(PubkeyFileName) => fs[PubkeyFileName] = pubkey_package
    /\ gc_pc = "done" =>
         /\ DOMAIN fs[CfgFileName].members = DOMAIN fs[PubkeyFileName].verifying_shares
         /\ DOMAIN fs[CfgFileName].members =
               {fs[KeyFileName(i)].identifier : i \in 0..(num - 1)}
         /\ {fs[CfgFileName].members[m].address : m \in DOMAIN fs[CfgFileName].members}
               = {MemberAddress(i) : i \in 0..(num - 1)}

C10_Witness == gc_pc = "done" /\ num = 3 /\ attempts >= 2

====
